---------------------------- MODULE Spec2Model ----------------------------
(***************************************************************************)
(* A model of the interrogation log viewer: the line grammar of           *)
(* LogFormatter.parse_line, the filter-and-label pass of                   *)
(* Workspace.update_view and MainWindow.update_workspace, and the          *)
(* selection handlers of LeftPanel and MainWindow.                         *)
(*                                                                         *)
(* Text.  A Python str is modelled as a sequence of symbols.  A symbol is  *)
(* one character (" ", "[", "J", "o", ...) or one indivisible chunk that   *)
(* the code only ever treats as a whole: a tone verb ("mowi" stands for    *)
(* the literal "mówi"), the word "do", the word "radio", a run of digits   *)
(* of a timestamp ("02", "2025"), an action label ("Czat IC").  Results    *)
(* of strftime are TLC strings ("2025-02-02").                             *)
(***************************************************************************)
EXTENDS Integers, Sequences, FiniteSets, TLC

VARIABLES
    p_line,       \* SpecParse: the line handed to parse_line
    p_out,        \* SpecParse: what parse_line returned
    p_pc,         \* SpecParse: "start" before the call, "done" after it
    app,          \* Spec: the front end that runs, "panels" (LeftPanel,
                  \* RightPanel and Workspace) or "window" (MainWindow)
    left_panel,   \* the LeftPanel object
    right_panel,  \* the RightPanel object
    workspace,    \* the Workspace object of the RightPanel
    main_window,  \* the MainWindow object
    parser        \* SpecLoad: the LogParser that a load is constructing

parseVars == <<p_line, p_out, p_pc>>

panelVars == <<left_panel, right_panel, workspace>>

appVars == <<app, left_panel, right_panel, workspace, main_window>>

vars ==
    <<p_line, p_out, p_pc, app, left_panel, right_panel, workspace, main_window, parser>>

(***************************************************************************)
(* Bounds.                                                                 *)
(***************************************************************************)
\* The longest run of blanks put between the parts of a generated line.
MaxPad == 2

\* The most toggle buttons that are unchecked at the same time.
MaxOff == 1

(***************************************************************************)
(* Symbols and character classes.                                          *)
(***************************************************************************)
Space == " "

\* the line terminator that ends a physical line of a file
Newline == "\n"

\* the chunk that stands for the letters of USER_PATTERN's verb, "m", A with
\* tilde, superscript three, "w", "i", which is not the verb "mowi" of a log
Mojibake == "mA3wi"

UpperSyms == {"J", "E", "D"}

LowerSyms == {"j", "e", "d", "o", "h", "i", "x"}

\* tone verbs of NAME_PATTERN: mówi | szepcze | krzyczy
ToneSyms == {"mowi", "szepcze", "krzyczy"}

\* other whole words that occur in messages
WordSyms == {"do", "radio", "Radio", "pisze", "Audycja", Mojibake}

\* the runs of digits used in timestamps
NumSyms ==
    {"0", "00", "1", "01", "2", "02", "002", "4", "04", "12", "13",
     "19", "22", "23", "24", "28", "29", "30", "31", "32", "38",
     "59", "60", "61", "1900", "2000", "2024", "2025", "0000", "25"}

\* value and width of each run of digits
NumTable ==
    [ c \in NumSyms |->
        CASE c = "0"    -> <<0, 1>>    [] c = "00"   -> <<0, 2>>
          [] c = "1"    -> <<1, 1>>    [] c = "01"   -> <<1, 2>>
          [] c = "2"    -> <<2, 1>>    [] c = "02"   -> <<2, 2>>
          [] c = "002"  -> <<2, 3>>
          [] c = "4"    -> <<4, 1>>    [] c = "04"   -> <<4, 2>>
          [] c = "12"   -> <<12, 2>>   [] c = "13"   -> <<13, 2>>
          [] c = "19"   -> <<19, 2>>   [] c = "22"   -> <<22, 2>>
          [] c = "23"   -> <<23, 2>>   [] c = "24"   -> <<24, 2>>
          [] c = "28"   -> <<28, 2>>   [] c = "29"   -> <<29, 2>>
          [] c = "30"   -> <<30, 2>>   [] c = "31"   -> <<31, 2>>
          [] c = "32"   -> <<32, 2>>   [] c = "38"   -> <<38, 2>>
          [] c = "59"   -> <<59, 2>>   [] c = "60"   -> <<60, 2>>
          [] c = "61"   -> <<61, 2>>   [] c = "25"   -> <<25, 2>>
          [] c = "1900" -> <<1900, 4>> [] c = "2000" -> <<2000, 4>>
          [] c = "2024" -> <<2024, 4>> [] c = "2025" -> <<2025, 4>>
          [] c = "0000" -> <<0, 4>> ]

IsNum(c) == c \in NumSyms

NumVal(c) == NumTable[c][1]

NumWidth(c) == NumTable[c][2]

\* a run of digits whose width is 2 and value in lo..hi, or whose width is 1
\* and value in lo1..9
NumField(num, lo, hi, lo1) ==
    \/ num[2] = 2 /\ num[1] \in lo..hi
    \/ num[2] = 1 /\ num[1] \in lo1..9

IsSpace(c) == c \in {Space, Newline}

IsUpper(c) == c \in UpperSyms

\* \w : letters, digits, underscore
IsWordChar(c) == c \in UpperSyms \cup LowerSyms \cup ToneSyms \cup WordSyms \cup NumSyms

\* [\w\s\-\'] : the characters a name may continue with
IsNameChar(c) == IsWordChar(c) \/ IsSpace(c) \/ c \in {"-", "'"}

\* str.lower(), symbol by symbol
LowerSym(c) ==
    CASE c = "J" -> "j" [] c = "E" -> "e" [] c = "D" -> "d"
      [] c = "Radio" -> "radio" [] c = "Audycja" -> "audycja"
      [] c = Mojibake -> "ma3wi"
      [] OTHER -> c

Lower(s) == [i \in 1..Len(s) |-> LowerSym(s[i])]

\* the number of leading blanks of s
RECURSIVE LeadingSpaces(_)
LeadingSpaces(s) ==
    IF s = <<>> \/ ~IsSpace(Head(s)) THEN 0 ELSE 1 + LeadingSpaces(Tail(s))

RECURSIVE TrailingSpaces(_)
TrailingSpaces(s) ==
    IF s = <<>> \/ ~IsSpace(s[Len(s)]) THEN 0
    ELSE 1 + TrailingSpaces(SubSeq(s, 1, Len(s) - 1))

\* str.strip()
Strip(s) ==
    LET a == LeadingSpaces(s)
    IN  IF a = Len(s) THEN <<>>
        ELSE SubSeq(s, a + 1, Len(s) - TrailingSpaces(s))

\* the index of the first "]" of s at or after position i, 0 when there is none
RECURSIVE FirstClose(_, _)
FirstClose(s, i) ==
    IF i > Len(s) THEN 0
    ELSE IF s[i] = "]" THEN i
    ELSE FirstClose(s, i + 1)

\* the index of the first symbol of s at or after i that is no blank
\* (Len(s) + 1 when only blanks follow)
RECURSIVE SkipSpaces(_, _)
SkipSpaces(s, i) ==
    IF i > Len(s) \/ ~IsSpace(s[i]) THEN i ELSE SkipSpaces(s, i + 1)

\* LOG_PATTERN: at the start of the line "[", one or more symbols other than
\* "]" (timestamp), "]", one or more blanks, "[", one or more symbols other
\* than "]" (action), "]", one or more blanks, then the rest of the line
\* (message).  The groups of the match, or matched = FALSE.
NoMatch == [matched |-> FALSE]

LOG_PATTERN(line) ==
    IF Len(line) < 1 \/ line[1] # "[" THEN NoMatch
    ELSE
    LET c1 == FirstClose(line, 2)
    IN  IF c1 < 3 THEN NoMatch
        ELSE
        LET o2 == SkipSpaces(line, c1 + 1)
        IN  IF o2 = c1 + 1 \/ o2 > Len(line) \/ line[o2] # "[" THEN NoMatch
            ELSE
            LET c2 == FirstClose(line, o2 + 1)
            IN  IF c2 < o2 + 2 THEN NoMatch
                ELSE
                LET m == SkipSpaces(line, c2 + 1)
                IN  IF m = c2 + 1 THEN NoMatch
                    ELSE [matched   |-> TRUE,
                          timestamp |-> SubSeq(line, 2, c1 - 1),
                          action    |-> SubSeq(line, o2 + 1, c2 - 1),
                          message   |-> SubSeq(line, m, Len(line))]

\* the line from its first "[" on
RECURSIVE DropToOpen(_)
DropToOpen(s) ==
    IF s = <<>> \/ Head(s) = "[" THEN s ELSE DropToOpen(Tail(s))

\* LOG_PATTERN.search(line): the pattern tried from the first "[" on
LogPatternMatch_search(line) == LOG_PATTERN(DropToOpen(line))

\* LOG_PATTERN.match(line): the pattern tried at the start of the line
LogPatternMatch(line) == LOG_PATTERN(line)

(***************************************************************************)
(* The timestamp: datetime.strptime(timestamp_str, "%d.%m.%Y %H:%M:%S")    *)
(* and the two strftime calls, inside try / except ValueError.             *)
(***************************************************************************)
\* %d : 01..31 in two digits, 1..9 in one
DayField(c) == IsNum(c) /\ NumField(NumTable[c], 1, 31, 1)

\* %m : 01..12 in two digits, 1..9 in one
MonthField(c) == IsNum(c) /\ NumField(NumTable[c], 1, 12, 1)

\* %Y : four digits
YearField(c) == IsNum(c) /\ NumWidth(c) = 4

\* %H : 00..23 in two digits, 0..9 in one
HourField(c) == IsNum(c) /\ NumField(NumTable[c], 0, 23, 0)

\* %M : 00..59 in two digits, 0..9 in one
MinuteField(c) == IsNum(c) /\ NumField(NumTable[c], 0, 59, 0)

\* %S : 00..61 in two digits, 0..9 in one
SecondField(c) == IsNum(c) /\ NumField(NumTable[c], 0, 61, 0)

IsLeap(y) == (y % 4 = 0 /\ y % 100 # 0) \/ y % 400 = 0

DaysInMonth(m, y) ==
    IF m = 2 THEN (IF IsLeap(y) THEN 29 ELSE 28)
    ELSE IF m \in {4, 6, 9, 11} THEN 30 ELSE 31

\* the datetime constructor accepts these fields and no others
DateTimeOK(y, m, d, hh, mm, ss) ==
    /\ y \in 1..9999
    /\ m \in 1..12
    /\ d \in 1..DaysInMonth(m, y)
    /\ hh \in 0..23
    /\ mm \in 0..59
    /\ ss \in 0..59

ValueError == [raised |-> "ValueError"]

\* the datetime constructor: the datetime, or ValueError
DateTime(y, m, d, hh, mm, ss) ==
    IF DateTimeOK(y, m, d, hh, mm, ss)
    THEN [raised |-> "", year |-> y, month |-> m, day |-> d,
          hour |-> hh, minute |-> mm, second |-> ss]
    ELSE ValueError

\* the fields of ts when the day is at a and the hour at b
StrpFields(ts, a, b) ==
    IF /\ DayField(ts[a])
       /\ ts[a + 1] = "."
       /\ MonthField(ts[a + 2])
       /\ ts[a + 3] = "."
       /\ YearField(ts[a + 4])
       /\ b > a + 5
       /\ Len(ts) = b + 4
       /\ HourField(ts[b])
       /\ ts[b + 1] = ":"
       /\ MinuteField(ts[b + 2])
       /\ ts[b + 3] = ":"
       /\ SecondField(ts[b + 4])
    THEN DateTime(NumVal(ts[a + 4]), NumVal(ts[a + 2]), NumVal(ts[a]),
                  NumVal(ts[b]), NumVal(ts[b + 2]), NumVal(ts[b + 4]))
    ELSE ValueError

\* the fields of ts when the day is at a
StrpFrom(ts, a) ==
    IF Len(ts) < a + 5 THEN ValueError
    ELSE StrpFields(ts, a, SkipSpaces(ts, a + 5))

\* strptime: the datetime, or ValueError.  %d also accepts a blank followed
\* by one digit 1..9; the blank of the format stands for one or more blanks;
\* nothing may follow the seconds.
StrpTime(ts) ==
    StrpFrom(ts, IF Len(ts) >= 2 /\ IsSpace(ts[1]) /\ IsNum(ts[2])
                    /\ NumField(NumTable[ts[2]], 1, 0, 1)
                 THEN 2 ELSE 1)

Digit == <<"0", "1", "2", "3", "4", "5", "6", "7", "8", "9">>

\* a number 0..99 in two digits
Pad2(n) == Digit[(n \div 10) + 1] \o Digit[(n % 10) + 1]

\* a number 0..9999 in four digits
Pad4(n) == Pad2(n \div 100) \o Pad2(n % 100)

\* dt.strftime("%Y-%m-%d")
StrfDate(dt) == Pad4(dt.year) \o "-" \o Pad2(dt.month) \o "-" \o Pad2(dt.day)

\* dt.strftime("%H:%M:%S")
StrfTime(dt) == Pad2(dt.hour) \o ":" \o Pad2(dt.minute) \o ":" \o Pad2(dt.second)

\* the two texts of a datetime
StrfParts(dt) == [raised |-> "", date |-> StrfDate(dt), time |-> StrfTime(dt)]

\* the try block without its except clause: the ValueError leaves parse_line
TryStrf_noexcept(dt) ==
    IF dt.raised # "" THEN [raised |-> "ValueError", date |-> "", time |-> ""]
    ELSE StrfParts(dt)

\* lines 78-85 of parse_line: date_str and time_str, both "" on ValueError
TryStrf(dt) ==
    IF dt.raised # "" THEN [raised |-> "", date |-> "", time |-> ""]
    ELSE StrfParts(dt)

TimestampParts_noexcept(ts) == TryStrf_noexcept(StrpTime(ts))

TimestampParts(ts) == TryStrf(StrpTime(ts))

(***************************************************************************)
(* NAME_PATTERN: at the start of the message an upper-case letter and one  *)
(* or more name characters, as few as possible (name), one or more blanks, *)
(* a tone verb, optionally blanks, "do", blanks, an upper-case letter and  *)
(* one or more name characters, then ":".                                  *)
(***************************************************************************)
\* the index of the first ":" of s at or after i, 0 when there is none
RECURSIVE FirstColon(_, _)
FirstColon(s, i) ==
    IF i > Len(s) THEN 0
    ELSE IF s[i] = ":" THEN i
    ELSE FirstColon(s, i + 1)

\* the optional group and the colon after it, from the symbol after the
\* verb at p: the index of the closing ":", 0 when the group does not match
DoGroupEnd(m, p) ==
    LET q == SkipSpaces(m, p + 1)
    IN  IF q = p + 1 \/ q > Len(m) \/ m[q] # "do" THEN 0
        ELSE
        LET r == SkipSpaces(m, q + 1)
        IN  IF r = q + 1 \/ r > Len(m) \/ ~IsUpper(m[r]) THEN 0
            ELSE
            LET e == FirstColon(m, r + 1)
            IN  IF e >= r + 2 /\ \A i \in (r + 1)..(e - 1) : IsNameChar(m[i])
                THEN e ELSE 0

\* what follows the tone verb at p: the index of the ":" that ends the match
AfterTone(m, p) ==
    IF DoGroupEnd(m, p) > 0 THEN DoGroupEnd(m, p)
    ELSE IF p + 1 <= Len(m) /\ m[p + 1] = ":" THEN p + 1
    ELSE 0

\* the lengths the name group can have in a match
NameEnds(m) ==
    { k \in 2..Len(m) :
        /\ IsUpper(m[1])
        /\ \A i \in 2..k : IsNameChar(m[i])
        /\ k + 1 <= Len(m) /\ IsSpace(m[k + 1])
        /\ LET t == SkipSpaces(m, k + 1)
           IN  t <= Len(m) /\ m[t] \in ToneSyms /\ AfterTone(m, t) > 0 }

Min(S) == CHOOSE x \in S : \A y \in S : x <= y

NAME_PATTERN(m) ==
    IF NameEnds(m) = {} THEN NoMatch
    ELSE LET k == Min(NameEnds(m))
             t == SkipSpaces(m, k + 1)
         IN  [matched |-> TRUE, name |-> SubSeq(m, 1, k), tone |-> m[t],
              end |-> AfterTone(m, t)]

(***************************************************************************)
(* LogFormatter.parse_line                                                 *)
(***************************************************************************)
None == [none |-> TRUE]

IsNone(parsed) == "none" \in DOMAIN parsed

\* dict.get(key, default)
Get(d, key, default) == IF key \in DOMAIN d THEN d[key] ELSE default

\* the message cut at its first ":"
CutAtColon(message, c) ==
    IF c = 0 THEN message ELSE Strip(SubSeq(message, c + 1, Len(message)))

\* lines 87-100: the name of the speaker and the dictionary returned
ParseRecord(timestamp_str, action, message, tp, name_match) ==
    IF tp.raised # "" THEN ValueError
    ELSE [timestamp |-> timestamp_str,
          date      |-> tp.date,
          time      |-> tp.time,
          action    |-> action,
          name      |-> IF name_match.matched THEN Strip(name_match.name) ELSE <<>>,
          message   |-> message]

\* a parse_line that trims the timestamp as it trims action and message
ParseGroups_trimmed(timestamp_str, action, message) ==
    ParseRecord(Strip(timestamp_str), action, message,
                TimestampParts(timestamp_str), NAME_PATTERN(message))

\* lines 78-91 for the three groups of the match
ParseGroups(timestamp_str, action, message) ==
    ParseRecord(timestamp_str, action, message,
                TimestampParts(timestamp_str), NAME_PATTERN(message))

\* a parse_line that cuts the message at its first ":" whether or not a
\* speaker was matched
ParseMatch_cut(match) ==
    IF ~match.matched THEN None
    ELSE ParseGroups(match.timestamp, Strip(match.action),
                     CutAtColon(Strip(match.message), FirstColon(Strip(match.message), 1)))

\* lines 71-76: None without a match, else the groups, action and message
\* stripped
ParseMatch(match) ==
    IF ~match.matched THEN None
    ELSE ParseGroups(match.timestamp, Strip(match.action), Strip(match.message))

ParseLine_cut(line) == ParseMatch_cut(LogPatternMatch(line))

ParseLine(line) == ParseMatch(LogPatternMatch(line))

(***************************************************************************)
(* The speaker clause as the tests of _extract_speaker_info and section    *)
(* 4.2 of the specification describe it: Name, blanks, tone verb, an       *)
(* optional " (extra)", an optional " do Addressee", ":".  The clause is   *)
(* the matched span, is_radio tells whether the extra, lower-cased, is     *)
(* "radio", and the message is what follows the span, stripped.            *)
(***************************************************************************)
\* the index of the first ")" of s at or after i, 0 when there is none
RECURSIVE FirstParen(_, _)
FirstParen(s, i) ==
    IF i > Len(s) THEN 0
    ELSE IF s[i] = ")" THEN i
    ELSE FirstParen(s, i + 1)

\* the " (extra)" after the verb at t: the index of its ")", 0 without one
ExtraEnd(m, t) ==
    LET q == SkipSpaces(m, t + 1)
    IN  IF q = t + 1 \/ q > Len(m) \/ m[q] # "(" THEN 0
        ELSE LET e == FirstParen(m, q + 1) IN IF e >= q + 2 THEN e ELSE 0

ClauseEnds(m) ==
    { k \in 2..Len(m) :
        /\ IsUpper(m[1])
        /\ \A i \in 2..k : IsNameChar(m[i])
        /\ k + 1 <= Len(m) /\ IsSpace(m[k + 1])
        /\ LET t == SkipSpaces(m, k + 1)
           IN  /\ t <= Len(m) /\ m[t] \in ToneSyms
               /\ AfterTone(m, IF ExtraEnd(m, t) > 0 THEN ExtraEnd(m, t) ELSE t) > 0 }

ExtractSpeakerInfo(m) ==
    IF ClauseEnds(m) = {} THEN [prefix |-> <<>>, is_radio |-> FALSE, message |-> m]
    ELSE LET k == Min(ClauseEnds(m))
             t == SkipSpaces(m, k + 1)
             x == ExtraEnd(m, t)
             e == AfterTone(m, IF x > 0 THEN x ELSE t)
             extra == IF x > 0 THEN SubSeq(m, SkipSpaces(m, t + 1) + 1, x - 1) ELSE <<>>
         IN  [prefix   |-> Strip(SubSeq(m, 1, e)),
              is_radio |-> Lower(extra) = <<"radio">>,
              message  |-> Strip(SubSeq(m, e + 1, Len(m)))]

(***************************************************************************)
(* The lines parse_line is tried on.                                       *)
(***************************************************************************)
Spaces(n) == [i \in 1..n |-> Space]

\* "2.02.2025 22:19:38"
Ts0 == <<"2", ".", "02", ".", "2025", " ", "22", ":", "19", ":", "38">>

TsTexts ==
    { <<d, ".", mo, ".", y, " ", "22", ":", "19", ":", ss>> :
        d \in {"2", "02", "29", "31", "32", "0", "002"},
        mo \in {"02", "4", "12", "13"},
        y \in {"2025", "2024", "1900", "0000", "25"},
        ss \in {"38", "60", "61"} }
    \cup
    { pre \o <<"2", s1, "02", ".", "2025">> \o Spaces(g) \o <<hh, ":", mi, ":", "38">> \o post :
        pre \in {<<>>, <<" ">>}, post \in {<<>>, <<" ">>},
        s1 \in {".", "-"},
        g \in 0..MaxPad,
        hh \in {"22", "0", "24"}, mi \in {"19", "60"} }
    \cup {<<"x">>, <<"2", ".", "02", ".", "2025">>, <<"22", ":", "19", ":", "38">>,
          <<"2", ".", "02", ".", "2025", " ", "22", ":", "19">>,
          <<"2", ".", "02", ".", "2025", " ", "22", ":", "19", ":", "38", ":", "38">>,
          <<"x", ".", "02", ".", "2025", " ", "22", ":", "19", ":", "38">>,
          <<" ", "12", ".", "02", ".", "2025", " ", "22", ":", "19", ":", "38">>}

MsgTexts ==
    { n \o <<" ", v>> \o x \o d \o c \o rest :
        n \in {<<"J", "o">>, <<"J", "o", " ", "D", "e">>, <<"j", "o">>, <<"J">>},
        v \in {"mowi", "szepcze", "krzyczy", "pisze"},
        x \in {<<>>, <<" ", "(", "radio", ")">>, <<" ", "(", "Radio", ")">>,
               <<" ", "(", "x", ")">>},
        d \in {<<>>, <<" ", "do", " ", "E", "d">>},
        c \in {<<":">>, <<>>},
        rest \in {<<>>, <<" ", "h", "i">>, <<"h", "i">>, <<" ", "[", "x", "]">>} }
    \cup {<<>>, <<"h", "i">>, <<"/", "x">>, <<"*", " ", "J", "o", " ", "x">>,
          <<"[", "x", "]", " ", "h", "i">>, <<"J", "o", ":", " ", "h", "i">>,
          <<"(", "radio", ")", " ", "h", "i">>}

ShapeTexts ==
    { o1 \o ts \o c1 \o Spaces(g1) \o o2 \o act \o c2 \o Spaces(g2) \o msg \o Spaces(g3) :
        o1 \in {<<"[">>, <<>>, <<" ", "[">>},
        ts \in {Ts0, <<>>, <<"[", "x">>},
        c1 \in {<<"]">>, <<>>},
        g1 \in 0..MaxPad,
        o2 \in {<<"[">>, <<>>},
        act \in {<<" ", "Komenda", " ">>, <<>>},
        c2 \in {<<"]">>, <<>>},
        g2 \in 0..MaxPad,
        msg \in {<<>>, <<"[", "x", "]", "h">>},
        g3 \in {0, 1} }

Shaped(ts, act, msg) == <<"[">> \o ts \o <<"]", " ", "[">> \o act \o <<"]", " ">> \o msg

ParseInputs ==
    { Shaped(ts, <<"Czat IC">>, <<"h", "i">>) : ts \in TsTexts }
    \cup { Shaped(Ts0, <<"Czat IC">>, msg) : msg \in MsgTexts }
    \cup ShapeTexts
    \cup { Shaped(<<" ">> \o Ts0 \o <<" ">>, <<" ", "Komenda", " ">>,
                  <<" ", "[", "x", "]", " ", "h", "]", " ">>) }

(***************************************************************************)
(* The transcripts that are loaded and the names of their speakers.        *)
(***************************************************************************)
\* "** [Kanal:", the mark of a radio channel line
ChannelMark == <<"*", "*", " ", "[", "Kanal", ":">>

Jo == <<"J", "o">>

Ed == <<"E", "d">>

\* "[2.02.2025 22:19:38] [Czat IC] Jo mowi: hi"
LineJo == Shaped(Ts0, <<"Czat IC">>, Jo \o <<" ", "mowi", ":", " ", "h", "i">>)

\* "[2.02.2025 22:19:38] [Czat IC] Ed mowi (radio): hi"
LineEdRadio ==
    Shaped(Ts0, <<"Czat IC">>, Ed \o <<" ", "mowi", " ", "(", "radio", ")", ":", " ", "h", "i">>)

\* "hi", not a log line
LineUnparsed == <<"h", "i">>

\* "[2.02.2025 22:19:38] [Komenda] /x"
LineCommand == Shaped(Ts0, <<"Komenda">>, <<"/", "x">>)

\* "[2.02.2025 22:19:38] [Akcja /me] * Jo x"
LineMe == Shaped(Ts0, <<"Akcja /me">>, <<"*", " ">> \o Jo \o <<" ", "x">>)

\* "[x] [Czat OOC] Ed mowi: hi jo", a timestamp that is no date
LineEdOOC ==
    Shaped(<<"x">>, <<"Czat OOC">>, Ed \o <<" ", "mowi", ":", " ", "h", "i", " ", "j", "o">>)

\* "[2.02.2025 22:19:38] [Czat IC] ** [Kanal: x] hi"
LineChannel ==
    Shaped(Ts0, <<"Czat IC">>, ChannelMark \o <<" ", "x", "]", " ", "h", "i">>)

\* "[2.02.2025 22:19:38] [Akcja /do] x"
LineDo == Shaped(Ts0, <<"Akcja /do">>, <<"x">>)

\* "[2.02.2025 22:19:38] [PW] hi ed"
LinePW == Shaped(Ts0, <<"PW">>, <<"h", "i", " ", "e", "d">>)

\* "[2.02.2025 22:19:38] [Inne] hi", an action that is no key of ACTION_COLOR_MAP
LineOther == Shaped(Ts0, <<"Inne">>, <<"h", "i">>)

\* the transcripts a loaded file can hold (LogParser strips every line)
Sources ==
    { <<>>,
      <<LineJo, LineUnparsed, LineEdRadio, LineCommand>>,
      <<LineMe, LineEdOOC, LineChannel, LineDo, LinePW, LineOther>> }

\* the keys the dictionaries of check boxes can get, in their order
NameLists == {<<>>, <<Jo, Ed>>}

\* "[2.02.2025 22:19:38] [Czat IC] Jo mA3wi: hi", a line of a file whose
\* verb reads as USER_PATTERN spells it
LineMoji == Shaped(Ts0, <<"Czat IC">>, Jo \o <<" ", Mojibake, ":", " ", "h", "i">>)

\* physical lines of a file, as iterating over the open file gives them: with
\* their terminator, which only the last line of a file can lack
PhysJo == LineJo \o <<Newline>>

PhysEdRadio == LineEdRadio \o <<Newline>>

\* " hi \n"
PhysPadded == <<Space>> \o LineUnparsed \o <<Space, Newline>>

\* "\n", an empty line
PhysBlank == <<Newline>>

\* the last line of a file, without terminator
PhysMoji == LineMoji

\* the files that are opened
Files ==
    { <<>>,
      <<PhysJo, PhysPadded, PhysEdRadio>>,
      <<PhysBlank, PhysMoji>> }

\* the lines of the transcripts
CorpusLines ==
    UNION {{logs[i] : i \in 1..Len(logs)} : logs \in Sources}
    \cup UNION {{Strip(file[i]) : i \in 1..Len(file)} : file \in Files}

\* parse_line of every line of the transcripts, computed once
ParsedLines == [line \in CorpusLines |-> ParseLine(line)]

\* self._formatter.parse_line(line) as the views call it
parse_line(line) == ParsedLines[line]

(***************************************************************************)
(* Rows of the table and the document of the text widget.                  *)
(***************************************************************************)
\* the toggle buttons, named without their pictographs; RightPanel and
\* Workspace use one set of names, MainWindow creates and reads another,
\* each consistently, so the nine names stand for both
_toggle_names ==
    {"Tog date", "Tog hour", "Tog /me", "Tog /do", "Tog OOC", "Tog PW",
     "Tog Commands", "Tog Unrecognized", "Tog Radio"}

\* the keys of ACTION_COLOR_MAP
ACTION_COLOR_MAP ==
    {<<"Czat IC">>, <<"Czat OOC">>, <<"Akcja /me">>, <<"Akcja /do">>,
     <<"Komenda">>, <<"PW">>, <<"default">>}

Reverse(s) == [i \in 1..Len(s) |-> s[Len(s) + 1 - i]]

\* set(a_list)
Range(s) == {s[i] : i \in 1..Len(s)}

\* part in text
Contains(text, part) ==
    \E i \in 0..(Len(text) - Len(part)) : SubSeq(text, i + 1, i + Len(part)) = part

\* text.startswith(part)
StartsWith(text, part) ==
    Len(text) >= Len(part) /\ SubSeq(text, 1, Len(part)) = part

\* a row "<td>row_index</td><td><pre>line</pre></td>" of an unparsed line
PreRow(row_index, line) ==
    [row_index |-> row_index, pre |-> TRUE, line |-> line, timestamp |-> "",
     tag |-> <<>>, action |-> <<>>, prefix |-> <<>>, message |-> line]

\* a row that loses its tag when no timestamp is shown
LogRow_stamped(row_index, line, timestamp, tag, action, prefix, message) ==
    [row_index |-> row_index, pre |-> FALSE, line |-> line,
     timestamp |-> timestamp, tag |-> IF timestamp = "" THEN <<>> ELSE tag,
     action |-> action, prefix |-> prefix, message |-> message]

\* a row of a parsed line: the index and the spans of the second cell; line
\* is the raw line the row was made from
LogRow(row_index, line, timestamp, tag, action, prefix, message) ==
    [row_index |-> row_index, pre |-> FALSE, line |-> line,
     timestamp |-> timestamp, tag |-> tag, action |-> action,
     prefix |-> prefix, message |-> message]

\* the document of a QTextEdit: nothing yet, the paragraph "No logs loaded",
\* or a table of rows
EmptyDocument == [html |-> "", rows |-> <<>>]

NoLogsLoaded == [html |-> "<p>No logs loaded</p>", rows |-> <<>>]

Table(table_rows) == [html |-> "<table>", rows |-> table_rows]

\* the bracketed timestamp of a row: the date when it is shown and set, the
\* time when it is shown and set, joined by a blank; "" when both are left out
NewTimestamp(parsed, show_date, show_hour) ==
    LET d == IF show_date /\ parsed.date # "" THEN parsed.date ELSE ""
        t == IF show_hour /\ parsed.time # "" THEN parsed.time ELSE ""
    IN  IF d = "" /\ t = "" THEN ""
        ELSE IF d = "" THEN "[" \o t \o "]"
        ELSE IF t = "" THEN "[" \o d \o "]"
        ELSE "[" \o d \o " " \o t \o "]"

(***************************************************************************)
(* Workspace.update_view                                                   *)
(***************************************************************************)
\* a sort that leaves the lines in file order whatever the order is
LogsToIterate_asc(logs, order) == logs

\* lines 124-127: a copy of the list, reversed when the order is DESC
LogsToIterate(logs, order) == IF order = "DESC" THEN Reverse(logs) ELSE logs

\* a sort that reverses self._raw_logs itself
RawLogsAfterSort_inplace(logs, order) == IF order = "DESC" THEN Reverse(logs) ELSE logs

\* lines 124-127: what self._raw_logs holds after the sort, which works on
\* the copy self._raw_logs[:]
RawLogsAfterSort(logs, order) == logs

\* a pipeline in which no action is shown regardless of the names
AlwaysShow_never(action) == FALSE

\* line 168: always_show = action == "Komenda"
AlwaysShow(action) == action = <<"Komenda">>

\* a loop in which every line takes a row index, the dropped ones too
RECURSIVE WorkspaceRows_count(_, _, _)

\* lines 146-230, the body of the loop for a parsed line whose action,
\* prefix, message and is_radio_message have been read (lines 146-149)
WorkspaceLogRow(line, row_index, w, parsed, action, prefix, message, is_radio_message) ==
    LET show_date == Get(w._toggles, "Tog date", TRUE)
        show_hour == Get(w._toggles, "Tog hour", TRUE)
        filter_me == Get(w._toggles, "Tog /me", TRUE)
        filter_do == Get(w._toggles, "Tog /do", TRUE)
        filter_ooc == Get(w._toggles, "Tog OOC", TRUE)
        filter_pw == Get(w._toggles, "Tog PW", TRUE)
        filter_commands == Get(w._toggles, "Tog Commands", TRUE)
        filter_radio == Get(w._toggles, "Tog Radio", TRUE)
        filter_action_tags == Get(w._toggles, "Tog Action Tags", TRUE)
        show_only_related == w._show_only_related
        selected_I == Range(w._interviewer_order)
        selected_O == Range(w._interrogated_order)
        always_show == AlwaysShow(action)
        combined_text == Lower(Strip(prefix \o <<" ">> \o message))
        is_command_or_pw ==
            \/ StartsWith(message, <<"/">>)
            \/ StartsWith(message, <<".">>)
            \/ StartsWith(message, <<"[">>)
        full_text == Strip(prefix \o <<" ">> \o message)
        tag == IF is_command_or_pw THEN <<>>
               ELSE IF \E name \in selected_I : Contains(Lower(full_text), Lower(name))
                    THEN <<"I">>
               ELSE IF \E name \in selected_O : Contains(Lower(full_text), Lower(name))
                    THEN <<"O">>
               ELSE <<>>
    IN  IF \/ action = <<"Akcja /me">> /\ ~filter_me
           \/ action = <<"Akcja /do">> /\ ~filter_do
           \/ action = <<"Czat OOC">> /\ ~filter_ooc
           \/ action = <<"PW">> /\ ~filter_pw
           \/ action = <<"Komenda">> /\ ~filter_commands
        THEN <<>>
        ELSE IF ~filter_radio /\ is_radio_message THEN <<>>
        ELSE IF /\ show_only_related /\ ~always_show
                /\ \A nm \in selected_I \cup selected_O : ~Contains(combined_text, Lower(nm))
                /\ \/ /\ is_radio_message
                      /\ Lower(prefix) \notin selected_I
                      /\ Lower(prefix) \notin selected_O
                   \/ ~is_radio_message
        THEN <<>>
        ELSE <<LogRow(row_index, line,
                      NewTimestamp(parsed, show_date, show_hour), tag,
                      IF filter_action_tags THEN action ELSE <<>>,
                      prefix, message)>>

\* lines 138-149, the body of the loop once the line has been parsed: an
\* unparsed line is skipped when "Tog Unrecognized" is on and shown when off
WorkspaceParsedRow(line, row_index, w, parsed) ==
    IF IsNone(parsed)
    THEN IF Get(w._toggles, "Tog Unrecognized", TRUE) THEN <<>>
         ELSE <<PreRow(row_index, line)>>
    ELSE WorkspaceLogRow(line, row_index, w, parsed, parsed.action,
                         Strip(Get(parsed, "prefix", <<>>)), Strip(parsed.message),
                         Get(parsed, "is_radio", FALSE))

\* lines 137-230, the body of the loop for one line: no row or one row
WorkspaceRow(line, row_index, w) ==
    WorkspaceParsedRow(line, row_index, w, parse_line(line))

WorkspaceRows_count(lines, row_index, w) ==
    IF lines = <<>> THEN <<>>
    ELSE WorkspaceRow(Head(lines), row_index, w)
         \o WorkspaceRows_count(Tail(lines), row_index + 1, w)

\* lines 129-130 and 136-230: the loop over logs_to_iterate, row_index
\* counting the rows appended so far
RECURSIVE WorkspaceRows(_, _, _)
WorkspaceRows(lines, row_index, w) ==
    IF lines = <<>> THEN <<>>
    ELSE LET row == WorkspaceRow(Head(lines), row_index, w)
         IN  row \o WorkspaceRows(Tail(lines), row_index + Len(row), w)

\* Workspace.update_view: the Workspace after the call
update_view(w) ==
    IF w._raw_logs = <<>> THEN [w EXCEPT !._text_edit = NoLogsLoaded]
    ELSE [w EXCEPT
            !._text_edit = Table(WorkspaceRows(LogsToIterate(w._raw_logs, w._order), 1, w)),
            !._raw_logs = RawLogsAfterSort(w._raw_logs, w._order)]

set_raw_logs(w, logs) == update_view([w EXCEPT !._raw_logs = logs])

on_filter_toggles_updated(w, toggles) == update_view([w EXCEPT !._toggles = toggles])

on_order_changed(w, order) == update_view([w EXCEPT !._order = order])

set_selected_names(w, interviewer_order, interrogated_order, show_related) ==
    update_view([w EXCEPT !._interviewer_order = interviewer_order,
                          !._interrogated_order = interrogated_order,
                          !._show_only_related = show_related])

\* Workspace.__init__
WorkspaceInit ==
    [_raw_logs |-> <<>>, _toggles |-> [name \in {} |-> TRUE], _order |-> "ASC",
     _interviewer_order |-> <<>>, _interrogated_order |-> <<>>,
     _show_only_related |-> FALSE, _text_edit |-> EmptyDocument]

(***************************************************************************)
(* MainWindow.update_workspace                                             *)
(***************************************************************************)
\* get_selected_names: the names whose checkbox is checked, in the order of
\* the dictionary
RECURSIVE CheckedNames(_, _)
CheckedNames(names, checkboxes) ==
    IF names = <<>> THEN <<>>
    ELSE (IF checkboxes[Head(names)].checked THEN <<Head(names)>> ELSE <<>>)
         \o CheckedNames(Tail(names), checkboxes)

get_selected_names(m) ==
    [selected_I |-> CheckedNames(m.checkbox_names, m.interviewer_checkboxes),
     selected_O |-> CheckedNames(m.checkbox_names, m.interrogated_checkboxes)]

\* lines 362-374: "[I] " for one matching name, "[I1] [I2] ..." for more
TagLabels(letter, count) ==
    IF count = 0 THEN <<>>
    ELSE IF count = 1 THEN <<letter>>
    ELSE [i \in 1..count |-> letter \o ToString(i)]

\* lines 317-409, the body of the loop for a parsed line, with the two
\* lists of get_selected_names (line 303)
WindowLogRow(line, row_index, m, parsed, selected_I, selected_O) ==
    LET show_date == m.filters["Tog date"].checked
        show_hour == m.filters["Tog hour"].checked
        filter_me == m.filters["Tog /me"].checked
        filter_do == m.filters["Tog /do"].checked
        filter_OOC == m.filters["Tog OOC"].checked
        filter_PW == m.filters["Tog PW"].checked
        filter_commands == m.filters["Tog Commands"].checked
        filter_unrecognized == m.filters["Tog Unrecognized"].checked
        filter_radio == m.filters["Tog Radio"].checked
        show_only_related == m.show_only_related_checkbox
        action == parsed.action
        always_show == action = <<"Komenda">> \/ Get(parsed, "is_radio", FALSE)
        combined_text ==
            Lower(Get(parsed, "prefix", <<>>) \o <<" ">> \o Get(parsed, "message", <<>>))
        matching_I == {i \in 1..Len(selected_I) :
                          Contains(combined_text, Lower(selected_I[i]))}
        matching_O == {i \in 1..Len(selected_O) :
                          Contains(combined_text, Lower(selected_O[i]))}
        tag == IF show_only_related /\ ~always_show
               THEN TagLabels("I", Cardinality(matching_I))
                    \o TagLabels("O", Cardinality(matching_O))
               ELSE <<>>
    IN  IF /\ ~filter_radio
           /\ \/ Get(parsed, "is_radio", FALSE)
              \/ Contains(line, ChannelMark)
              \/ StartsWith(Strip(parsed.message), <<"Audycja">>)
        THEN <<>>
        ELSE IF \/ action = <<"Akcja /me">> /\ ~filter_me
                \/ action = <<"Akcja /do">> /\ ~filter_do
                \/ action = <<"Czat OOC">> /\ ~filter_OOC
                \/ action = <<"PW">> /\ ~filter_PW
                \/ action = <<"Komenda">> /\ ~filter_commands
                \/ action \notin ACTION_COLOR_MAP /\ ~filter_unrecognized
        THEN <<>>
        ELSE IF /\ show_only_related /\ ~always_show
                /\ matching_I = {} /\ matching_O = {}
        THEN <<>>
        ELSE <<LogRow(row_index, line,
                      NewTimestamp(parsed, show_date, show_hour), tag,
                      action, Get(parsed, "prefix", <<>>), parsed.message)>>

\* lines 306-315, the body of the loop once the line has been parsed: an
\* unparsed line is shown when "Tog Unrecognized" is on and skipped when off
WindowParsedRow(line, row_index, m, parsed, selected_I, selected_O) ==
    IF IsNone(parsed)
    THEN IF m.filters["Tog Unrecognized"].checked THEN <<PreRow(row_index, line)>>
         ELSE <<>>
    ELSE WindowLogRow(line, row_index, m, parsed, selected_I, selected_O)

\* lines 306-409, the body of the loop for one line: no row or one row
WindowRow(line, row_index, m) ==
    WindowParsedRow(line, row_index, m, parse_line(line),
                    get_selected_names(m).selected_I, get_selected_names(m).selected_O)

\* lines 299-300 and 305-409: the loop over logs_to_iterate
RECURSIVE WindowRows(_, _, _)
WindowRows(lines, row_index, m) ==
    IF lines = <<>> THEN <<>>
    ELSE LET row == WindowRow(Head(lines), row_index, m)
         IN  row \o WindowRows(Tail(lines), row_index + Len(row), m)

\* MainWindow.update_workspace: the MainWindow after the call; lines 296-298
\* iterate self.raw_logs or a reversed copy of it
update_workspace(m) ==
    IF m.raw_logs = <<>> THEN m
    ELSE [m EXCEPT !.workspace =
            Table(WindowRows(IF m.sort_order = "ASC" THEN m.raw_logs
                             ELSE Reverse(m.raw_logs), 1, m))]

(***************************************************************************)
(* RightPanel.  p is the three objects of the panel front end,             *)
(* [left_panel, right_panel, workspace]; a handler gives them after it     *)
(* has returned.  A button or check box is [checked, enabled].             *)
(***************************************************************************)
\* RightPanel.__init__ and _init_ui
RightPanelInit ==
    [_raw_logs |-> <<>>, _sort_order |-> "ASC",
     _asc_button |-> TRUE, _desc_button |-> FALSE,
     _toggles |-> [name \in _toggle_names |-> [checked |-> FALSE, enabled |-> FALSE]]]

on_names_updated(p, interviewers, interrogated, show_related) ==
    [p EXCEPT !.workspace =
        update_view(set_selected_names(@, interviewers, interrogated, show_related))]

\* a handler that does not hand the states to the Workspace
_on_toggle_changed_silent(p) == p

\* _on_toggle_changed: the states of all toggles go to the Workspace
_on_toggle_changed(p) ==
    LET states == [name \in _toggle_names |-> p.right_panel._toggles[name].checked]
    IN  [p EXCEPT !.workspace = on_filter_toggles_updated(@, states)]

_on_asc_clicked(p) ==
    IF p.right_panel._sort_order # "ASC"
    THEN [p EXCEPT !.right_panel._sort_order = "ASC",
                   !.right_panel._asc_button = TRUE,
                   !.right_panel._desc_button = FALSE,
                   !.workspace = on_order_changed(@, "ASC")]
    ELSE p

_on_desc_clicked(p) ==
    IF p.right_panel._sort_order # "DESC"
    THEN [p EXCEPT !.right_panel._sort_order = "DESC",
                   !.right_panel._asc_button = FALSE,
                   !.right_panel._desc_button = TRUE,
                   !.workspace = on_order_changed(@, "DESC")]
    ELSE p

\* on_logs_loaded: every toggle is enabled and checked; a toggle that was
\* unchecked emits toggled, and the last such emission leaves the Workspace
\* with the states of the nine toggles, all true; then the logs are set
on_logs_loaded(p, logs) ==
    LET emits == \E name \in _toggle_names : ~p.right_panel._toggles[name].checked
        p1 == [p EXCEPT !.right_panel._raw_logs = logs,
                        !.right_panel._toggles =
                            [name \in _toggle_names |-> [checked |-> TRUE, enabled |-> TRUE]]]
        p2 == IF emits THEN _on_toggle_changed(p1) ELSE p1
    IN  [p2 EXCEPT !.workspace = update_view(set_raw_logs(@, logs))]

(***************************************************************************)
(* LeftPanel.  Its signals logsLoaded and namesUpdated are connected to    *)
(* RightPanel.on_logs_loaded and RightPanel.on_names_updated.              *)
(***************************************************************************)
CheckBox == [checked |-> FALSE, enabled |-> TRUE]

\* LeftPanel.__init__
LeftPanelInit ==
    [raw_logs |-> <<>>, _interviewer_order |-> <<>>, _interrogated_order |-> <<>>,
     interviewer_checkboxes |-> [name \in {} |-> CheckBox],
     interrogated_checkboxes |-> [name \in {} |-> CheckBox],
     show_only_related_checkbox |-> FALSE]

_emit_names_updated(p) ==
    on_names_updated(p, p.left_panel._interviewer_order,
                     p.left_panel._interrogated_order,
                     p.left_panel.show_only_related_checkbox)

\* an unchecked name that stays in the order list
RemoveName_keep(order, raw_name) == order

\* lines 218-219 and 253-254: the name is removed from the list it is in
RemoveName(order, raw_name) ==
    IF raw_name \in Range(order) THEN SelectSeq(order, LAMBDA nm : nm # raw_name)
    ELSE order

\* lines 208-209 and 243-244: the name is appended unless it is in the list
AppendName(order, raw_name) ==
    IF raw_name \notin Range(order) THEN Append(order, raw_name) ELSE order

\* an unchecked box that leaves the box of the other group disabled
InterviewerUnchecked_locked(p, raw_name) ==
    _emit_names_updated([p EXCEPT !.left_panel._interviewer_order = RemoveName(@, raw_name)])

\* lines 217-227, the branch of _on_interviewer_changed for an unchecked box
InterviewerUnchecked(p, raw_name) ==
    LET p1 == [p EXCEPT !.left_panel._interviewer_order = RemoveName(@, raw_name)]
        p2 == IF raw_name \notin DOMAIN p1.left_panel.interrogated_checkboxes THEN p1
              ELSE [p1 EXCEPT !.left_panel.interrogated_checkboxes[raw_name].enabled = TRUE]
    IN  _emit_names_updated(p2)

\* lines 252-262, the branch of _on_interrogated_changed for an unchecked box
InterrogatedUnchecked(p, raw_name) ==
    LET p1 == [p EXCEPT !.left_panel._interrogated_order = RemoveName(@, raw_name)]
        p2 == IF raw_name \notin DOMAIN p1.left_panel.interviewer_checkboxes THEN p1
              ELSE [p1 EXCEPT !.left_panel.interviewer_checkboxes[raw_name].enabled = TRUE]
    IN  _emit_names_updated(p2)

\* is_checked is state == Qt.CheckState.Checked.value.  setChecked(False) on
\* a checked box of the other group emits stateChanged with Unchecked, which
\* runs the other handler, that is its branch for an unchecked box, before
\* setEnabled(False)
_on_interviewer_changed(p, raw_name, is_checked) ==
    IF is_checked
    THEN LET p1 == [p EXCEPT !.left_panel._interviewer_order = AppendName(@, raw_name)]
             p2 == IF raw_name \notin DOMAIN p1.left_panel.interrogated_checkboxes THEN p1
                   ELSE LET p3 == IF p1.left_panel.interrogated_checkboxes[raw_name].checked
                                  THEN InterrogatedUnchecked(
                                         [p1 EXCEPT !.left_panel.interrogated_checkboxes[raw_name].checked = FALSE],
                                         raw_name)
                                  ELSE p1
                        IN  [p3 EXCEPT !.left_panel.interrogated_checkboxes[raw_name].enabled = FALSE]
         IN  _emit_names_updated(p2)
    ELSE InterviewerUnchecked(p, raw_name)

_on_interrogated_changed(p, raw_name, is_checked) ==
    IF is_checked
    THEN LET p1 == [p EXCEPT !.left_panel._interrogated_order = AppendName(@, raw_name)]
             p2 == IF raw_name \notin DOMAIN p1.left_panel.interviewer_checkboxes THEN p1
                   ELSE LET p3 == IF p1.left_panel.interviewer_checkboxes[raw_name].checked
                                  THEN InterviewerUnchecked(
                                         [p1 EXCEPT !.left_panel.interviewer_checkboxes[raw_name].checked = FALSE],
                                         raw_name)
                                  ELSE p1
                        IN  [p3 EXCEPT !.left_panel.interviewer_checkboxes[raw_name].enabled = FALSE]
         IN  _emit_names_updated(p2)
    ELSE InterrogatedUnchecked(p, raw_name)

\* lines 163-166: the name NAME_PATTERN finds at the start of a prefix
PrefixNames(prefix) ==
    IF prefix # <<>> /\ NAME_PATTERN(prefix).matched
    THEN {NAME_PATTERN(prefix).name} ELSE {}

\* line 162: a parsed line with a "prefix" that is not empty
LineNames(parsed) ==
    IF IsNone(parsed) THEN {} ELSE PrefixNames(Get(parsed, "prefix", <<>>))

\* lines 158-166: the names that are counted, the keys of freq
CountedNames(logs) == UNION {LineNames(parse_line(logs[i])) : i \in 1..Len(logs)}

\* _populate_name_selections: the old check boxes and both order lists are
\* cleared, a pair of check boxes is made for each of names, and the cleared
\* lists are emitted
_populate_name_selections(p, names) ==
    _emit_names_updated(
        [p EXCEPT !.left_panel._interviewer_order = <<>>,
                  !.left_panel._interrogated_order = <<>>,
                  !.left_panel.interviewer_checkboxes = [name \in Range(names) |-> CheckBox],
                  !.left_panel.interrogated_checkboxes = [name \in Range(names) |-> CheckBox]])

\* _on_load_clicked with a file chosen whose lines are logs
_on_load_clicked(p, logs, names) ==
    _populate_name_selections(
        on_logs_loaded([p EXCEPT !.left_panel.raw_logs = logs], logs), names)

(***************************************************************************)
(* MainWindow                                                              *)
(***************************************************************************)
\* MainWindow.__init__ and initUI
MainWindowInit ==
    [raw_logs |-> <<>>, sort_order |-> "ASC",
     asc_button |-> TRUE, desc_button |-> FALSE,
     filters |-> [name \in _toggle_names |-> [checked |-> TRUE, enabled |-> FALSE]],
     checkbox_names |-> <<>>,
     interviewer_checkboxes |-> [name \in {} |-> CheckBox],
     interrogated_checkboxes |-> [name \in {} |-> CheckBox],
     show_only_related_checkbox |-> FALSE,
     workspace |-> EmptyDocument]

set_order_asc(m) ==
    update_workspace([m EXCEPT !.sort_order = "ASC",
                               !.asc_button = TRUE, !.desc_button = FALSE])

set_order_desc(m) ==
    update_workspace([m EXCEPT !.sort_order = "DESC",
                               !.asc_button = FALSE, !.desc_button = TRUE])

\* checkbox_names is the order of the keys of the two dictionaries
populate_name_selections(m, names) ==
    [m EXCEPT !.checkbox_names = names,
              !.interviewer_checkboxes = [name \in Range(names) |-> CheckBox],
              !.interrogated_checkboxes = [name \in Range(names) |-> CheckBox]]

\* load_logs with a file chosen whose lines are logs
load_logs(m, logs, names) ==
    update_workspace(populate_name_selections(
        [m EXCEPT !.raw_logs = logs,
                  !.filters = [name \in _toggle_names |-> [@[name] EXCEPT !.enabled = TRUE]]],
        names))

\* state is true for Checked
on_interviewer_changed(m, name, state) ==
    update_workspace([m EXCEPT !.interrogated_checkboxes[name].enabled = ~state])

on_interrogated_changed(m, name, state) ==
    update_workspace([m EXCEPT !.interviewer_checkboxes[name].enabled = ~state])

(***************************************************************************)
(* LogParser.  The object under construction is [pc, file, pos, logs,      *)
(* users, user_frequencies]: file is the physical lines of the file at     *)
(* file_path, pos the number of them read, pc "reading" inside _load_logs, *)
(* "done" once __init__ has returned, or the exception that left it.       *)
(***************************************************************************)
NoUserMatch == [matched |-> FALSE, group1 |-> <<>>]

\* [\w\s\-], the characters of group 1 of USER_PATTERN
IsUserChar(c) == IsWordChar(c) \/ IsSpace(c) \/ c = "-"

\* what follows the verb at k: ":" at once, or blanks, "(", one or more
\* symbols other than ")", ")" and ":"
UserTail(line, k) ==
    \/ k + 1 <= Len(line) /\ line[k + 1] = ":"
    \/ LET t == SkipSpaces(line, k + 1)
       IN  /\ t > k + 1 /\ t <= Len(line) /\ line[t] = "("
           /\ \E c \in (t + 2)..(Len(line) - 1) :
                 /\ line[c] = ")" /\ line[c + 1] = ":"
                 /\ \A i \in (t + 1)..(c - 1) : line[i] # ")"

\* the matches <<a, e>> of group 1: symbols a..e of the class, then blanks
\* up to the verb, then the tail
UserGroups(line) ==
    { ae \in (1..Len(line)) \X (1..Len(line)) :
        /\ ae[1] <= ae[2]
        /\ \A i \in ae[1]..ae[2] : IsUserChar(line[i])
        /\ ae[2] + 1 <= Len(line) /\ IsSpace(line[ae[2] + 1])
        /\ LET k == SkipSpaces(line, ae[2] + 1)
           IN  k <= Len(line) /\ line[k] = Mojibake /\ UserTail(line, k) }

\* USER_PATTERN.search(line): the leftmost match, its group 1 the shortest
\* (the group is lazy)
USER_PATTERN_search(line) ==
    IF UserGroups(line) = {} THEN NoUserMatch
    ELSE LET a == Min({ae[1] : ae \in UserGroups(line)})
             e == Min({ae[2] : ae \in {x \in UserGroups(line) : x[1] = a}})
         IN  [matched |-> TRUE, group1 |-> SubSeq(line, a, e)]

\* _extract_user: the users after the line
_extract_user(users, match) ==
    IF match.matched THEN users \cup {match.group1} ELSE users

\* LogParser.__init__ up to the call of _load_logs, the file being there
LogParserInit(file) ==
    [pc |-> "reading", file |-> file, pos |-> 0, logs |-> <<>>, users |-> {},
     user_frequencies |-> [name \in {} |-> 0]]

\* no LogParser has been constructed
NoParser == [LogParserInit(<<>>) EXCEPT !.pc = "none"]

\* lines 42-43, one turn of the loop of _load_logs
_load_logs_line(lp, line) ==
    [lp EXCEPT !.pos = @ + 1,
               !.logs = Append(@, Strip(line)),
               !.users = _extract_user(@, USER_PATTERN_search(line))]

\* a handler that shows what had been read when the exception came
LoadRaised_partial(p, lp) ==
    [p EXCEPT !.left_panel.raw_logs = lp.logs]

\* _on_load_clicked when LogParser(file_path) raises: the exception leaves
\* the handler at line 136, before self.raw_logs is assigned
LoadRaised(p, lp) == p

(***************************************************************************)
(* SpecParse: parse_line applied once to a line.                           *)
(***************************************************************************)
InitParse ==
    /\ p_line \in ParseInputs
    /\ p_out = None
    /\ p_pc = "start"
    /\ app = "panels"
    /\ left_panel = LeftPanelInit
    /\ right_panel = RightPanelInit
    /\ workspace = WorkspaceInit
    /\ main_window = MainWindowInit
    /\ parser = NoParser

ParseStep ==
    /\ p_pc = "start"
    /\ p_out' = ParseLine(p_line)
    /\ p_pc' = "done"
    /\ UNCHANGED <<p_line, appVars, parser>>

NextParse == ParseStep

SpecParse == InitParse /\ [][NextParse]_vars

(***************************************************************************)
(* Claims about parse_line (SpecParse).                                    *)
(***************************************************************************)
\* the text after the action bracket, as parse_line receives it
PostAction(line) == Strip(LOG_PATTERN(line).message)

Parsed(out) == ~IsNone(out) /\ "raised" \notin DOMAIN out

\* C6 (as claimed): parse_line sets is_radio to true exactly when the message
\* begins with a speaker clause whose extra, lower-cased, is "radio"; the
\* clause it returns then includes "(radio)" and the message is the text
\* after the clause.
C6_RadioFlagged ==
    (p_pc = "done" /\ Parsed(p_out)) =>
        LET info == ExtractSpeakerInfo(PostAction(p_line))
        IN  /\ (Get(p_out, "is_radio", FALSE) = TRUE) <=> info.is_radio
            /\ info.is_radio =>
                  /\ Get(p_out, "prefix", <<>>) = info.prefix
                  /\ p_out.message = info.message

\* C7 (as claimed): for a parsed line whose message begins with "Name verb:",
\* parse_line returns the whole clause as prefix, only the text after the
\* clause as message, and does not flag the line as radio.
C7_ClauseSplit ==
    (p_pc = "done" /\ Parsed(p_out) /\ NAME_PATTERN(PostAction(p_line)).matched) =>
        LET msg == PostAction(p_line)
            e == NAME_PATTERN(msg).end
        IN  /\ Get(p_out, "prefix", <<>>) = SubSeq(msg, 1, e)
            /\ p_out.message = Strip(SubSeq(msg, e + 1, Len(msg)))
            /\ Get(p_out, "is_radio", FALSE) # TRUE

HasOuterShape(line) ==
    /\ Len(line) >= 1 /\ line[1] = "["
    /\ \E i \in 3..Len(line) :
        /\ line[i] = "]"
        /\ \A n \in 2..(i - 1) : line[n] # "]"
        /\ \E j \in (i + 2)..Len(line) :
            /\ line[j] = "["
            /\ \A n \in (i + 1)..(j - 1) : IsSpace(line[n])
            /\ \E k \in (j + 2)..Len(line) :
                /\ line[k] = "]"
                /\ \A n \in (j + 1)..(k - 1) : line[n] # "]"

\* C9: a line that does not have the outer shape yields None; parse_line
\* never raises.
C9_UnshapedIsNone ==
    p_pc = "done" =>
        /\ "raised" \notin DOMAIN p_out
        /\ ~HasOuterShape(p_line) => IsNone(p_out)

C9_Witness ==
    /\ p_pc = "done"
    /\ p_line # <<>>
    /\ p_line[1] # "["
    /\ \E i \in 1..Len(p_line) : p_line[i] = "["
    /\ IsNone(p_out)

\* the timestamp texts that denote a day.month.year hour:minute:second
ValidTimestamp(ts) ==
    \E a \in {1, 2}, g \in 1..Len(ts) :
        /\ Len(ts) = a + 9 + g
        /\ a = 2 => IsSpace(ts[1])
        /\ ts[a + 1] = "." /\ ts[a + 3] = "."
        /\ \A n \in (a + 5)..(a + 4 + g) : IsSpace(ts[n])
        /\ ts[a + 6 + g] = ":" /\ ts[a + 8 + g] = ":"
        /\ \A n \in {a, a + 2, a + 4, a + 5 + g, a + 7 + g, a + 9 + g} : IsNum(ts[n])
        /\ LET d == ts[a]          mo == ts[a + 2]      y == ts[a + 4]
               hh == ts[a + 5 + g] mi == ts[a + 7 + g]  ss == ts[a + 9 + g]
           IN  /\ a = 2 => NumWidth(d) = 1
               /\ NumWidth(d) <= 2 /\ NumWidth(mo) <= 2 /\ NumWidth(y) = 4
               /\ NumWidth(hh) <= 2 /\ NumWidth(mi) <= 2 /\ NumWidth(ss) <= 2
               /\ NumVal(y) >= 1
               /\ NumVal(mo) \in 1..12
               /\ NumVal(d) >= 1 /\ NumVal(d) <= DaysInMonth(NumVal(mo), NumVal(y))
               /\ NumVal(hh) <= 23 /\ NumVal(mi) <= 59 /\ NumVal(ss) <= 59

\* C10: date and time are both set exactly when the timestamp is valid, both
\* "" otherwise, never one without the other, and parse_line does not raise;
\* "2.02.2025 22:19:38" gives "2025-02-02" and "22:19:38".
C10_TimestampBothOrNeither ==
    (p_pc = "done" /\ LOG_PATTERN(p_line).matched) =>
        /\ Parsed(p_out)
        /\ (p_out.date = "") <=> (p_out.time = "")
        /\ (p_out.date # "") <=> ValidTimestamp(p_out.timestamp)
        /\ p_out.timestamp = Ts0 => p_out.date = "2025-02-02" /\ p_out.time = "22:19:38"
        /\ p_out.date # "" => Len(p_out.date) = 10 /\ Len(p_out.time) = 8

C10_Witness ==
    /\ p_pc = "done"
    /\ Parsed(p_out)
    /\ p_out.timestamp = <<"29", ".", "02", ".", "2024", " ", "22", ":", "19", ":", "38">>
    /\ p_out.date = "2024-02-29"
    /\ p_out.time = "22:19:38"

\* the places <<i, j, k>> of the first "]", the second "[" and the second "]"
\* of a line that begins with two bracketed spans without "]" in them,
\* blanks between the two
ShapeSpans(line) ==
    { t \in (3..Len(line)) \X (1..Len(line)) \X (1..Len(line)) :
        /\ line[1] = "["
        /\ line[t[1]] = "]"
        /\ \A n \in 2..(t[1] - 1) : line[n] # "]"
        /\ t[2] >= t[1] + 2
        /\ line[t[2]] = "["
        /\ \A n \in (t[1] + 1)..(t[2] - 1) : IsSpace(line[n])
        /\ t[3] >= t[2] + 2
        /\ line[t[3]] = "]"
        /\ \A n \in (t[2] + 1)..(t[3] - 1) : line[n] # "]" }

\* the text after position k of the line
Remainder(line, k) == SubSeq(line, k + 1, Len(line))

\* s without the blanks at its two ends, by the places of its first and
\* last symbol that is no blank
Trimmed(s) ==
    LET solid == {n \in 1..Len(s) : ~IsSpace(s[n])}
    IN  IF solid = {} THEN <<>>
        ELSE SubSeq(s, CHOOSE a \in solid : \A n \in solid : a <= n,
                       CHOOSE b \in solid : \A n \in solid : b >= n)

\* C21: for every line "[timestamp] [action] message" (the two bracketed
\* spans, a blank after the second, then the remainder) the parsed timestamp
\* is the text inside the first bracket pair verbatim, blanks included, the
\* action is the text inside the second pair trimmed, and the message is
\* the remainder after the second "]" trimmed, further "[" and "]" in it
\* included; the line is the spans rebuilt from the fields with blanks only
\* between them.
C21_FieldsAreTheSpans ==
    p_pc = "done" =>
        \A t \in ShapeSpans(p_line) :
            (t[3] < Len(p_line) /\ IsSpace(p_line[t[3] + 1])) =>
                /\ Parsed(p_out)
                /\ p_out.timestamp = SubSeq(p_line, 2, t[1] - 1)
                /\ p_out.action = Trimmed(SubSeq(p_line, t[2] + 1, t[3] - 1))
                /\ p_out.message = Trimmed(Remainder(p_line, t[3]))
                /\ SubSeq(p_line, 1, t[1]) = <<"[">> \o p_out.timestamp \o <<"]">>
                /\ \E g1, g2 \in 0..Len(p_line) :
                      SubSeq(p_line, t[2], t[3]) =
                          <<"[">> \o Spaces(g1) \o p_out.action \o Spaces(g2) \o <<"]">>
                /\ \E g1 \in 1..Len(p_line), g2 \in 0..Len(p_line) :
                      Remainder(p_line, t[3]) = Spaces(g1) \o p_out.message \o Spaces(g2)

\* a timestamp with a blank at each end, kept; an action with blanks at
\* both ends, trimmed; a message with brackets of its own between blanks
C21_Witness ==
    /\ p_pc = "done"
    /\ Parsed(p_out)
    /\ p_out.timestamp = <<" ">> \o Ts0 \o <<" ">>
    /\ p_out.action = <<"Komenda">>
    /\ p_out.message = <<"[", "x", "]", " ", "h", "]">>
    /\ p_line[Len(p_line)] = Space

\* C22 (as claimed): a line that is a bracketed timestamp and a bracketed
\* action with an empty remainder, such as "[ts] [action]" as the loader
\* leaves it, parses with the message "" and is not unparsed.
C22_EmptyRemainderParses ==
    p_pc = "done" =>
        \A t \in ShapeSpans(p_line) :
            Trimmed(Remainder(p_line, t[3])) = <<>> =>
                /\ Parsed(p_out)
                /\ p_out.message = <<>>

(***************************************************************************)
(* Spec: the front end driven by its user.  Each action is one event of    *)
(* the user together with the handlers it runs.  A click on a checkable    *)
(* button or a check box flips its checked state before the handler runs,  *)
(* and only an enabled widget can be clicked.                              *)
(***************************************************************************)
Panels == [left_panel |-> left_panel, right_panel |-> right_panel, workspace |-> workspace]

PanelsAre(p) ==
    /\ left_panel' = p.left_panel
    /\ right_panel' = p.right_panel
    /\ workspace' = p.workspace

PanelsBecome(p) ==
    /\ PanelsAre(p)
    /\ UNCHANGED <<app, main_window, parseVars, parser>>

WindowBecomes(m) ==
    /\ main_window' = m
    /\ UNCHANGED <<app, panelVars, parseVars, parser>>

\* the number of unchecked toggle buttons
OffCount(toggles) == Cardinality({name \in _toggle_names : ~toggles[name].checked})

Init ==
    /\ app \in {"panels", "window"}
    /\ left_panel = LeftPanelInit
    /\ right_panel = RightPanelInit
    /\ workspace = WorkspaceInit
    /\ main_window = MainWindowInit
    /\ p_line = <<>>
    /\ p_out = None
    /\ p_pc = "idle"
    /\ parser = NoParser

\* The check boxes are made for the names in CountedNames(logs).  parse_line
\* returns no "prefix", so that set is empty for every transcript; the
\* handlers of the check boxes are explored for every larger dictionary too.
LoadClicked ==
    /\ app = "panels"
    /\ \E logs \in Sources, names \in NameLists :
        /\ CountedNames(logs) \subseteq Range(names)
        /\ PanelsBecome(_on_load_clicked(Panels, logs, names))

InterviewerClicked ==
    /\ app = "panels"
    /\ \E name \in DOMAIN left_panel.interviewer_checkboxes :
        /\ left_panel.interviewer_checkboxes[name].enabled
        /\ LET is_checked == ~left_panel.interviewer_checkboxes[name].checked
           IN  PanelsBecome(_on_interviewer_changed(
                   [Panels EXCEPT !.left_panel.interviewer_checkboxes[name].checked = is_checked],
                   name, is_checked))

InterrogatedClicked ==
    /\ app = "panels"
    /\ \E name \in DOMAIN left_panel.interrogated_checkboxes :
        /\ left_panel.interrogated_checkboxes[name].enabled
        /\ LET is_checked == ~left_panel.interrogated_checkboxes[name].checked
           IN  PanelsBecome(_on_interrogated_changed(
                   [Panels EXCEPT !.left_panel.interrogated_checkboxes[name].checked = is_checked],
                   name, is_checked))

RelatedClicked ==
    /\ app = "panels"
    /\ PanelsBecome(_emit_names_updated(
           [Panels EXCEPT !.left_panel.show_only_related_checkbox = ~@]))

ToggleClicked ==
    /\ app = "panels"
    /\ \E name \in _toggle_names :
        /\ right_panel._toggles[name].enabled
        /\ right_panel._toggles[name].checked => OffCount(right_panel._toggles) < MaxOff
        /\ PanelsBecome(_on_toggle_changed(
               [Panels EXCEPT !.right_panel._toggles[name].checked = ~@]))

AscClicked ==
    /\ app = "panels"
    /\ PanelsBecome(_on_asc_clicked([Panels EXCEPT !.right_panel._asc_button = ~@]))

DescClicked ==
    /\ app = "panels"
    /\ PanelsBecome(_on_desc_clicked([Panels EXCEPT !.right_panel._desc_button = ~@]))

\* load_logs for a file and the check boxes made for it
WindowLoad(logs, names) ==
    /\ app = "window"
    /\ CountedNames(logs) \subseteq Range(names)
    /\ WindowBecomes(load_logs(main_window, logs, names))

\* update_workspace returns at once when raw_logs is empty and leaves the
\* table of the file loaded before in place; the states that differ only in
\* such a table left over are explored in SpecReload, here an empty file is
\* loaded only while the document is still empty.
WindowLoadClicked ==
    \E logs \in Sources, names \in NameLists :
        /\ logs = <<>> => main_window.workspace = EmptyDocument
        /\ WindowLoad(logs, names)

WindowInterviewerClicked ==
    /\ app = "window"
    /\ \E name \in DOMAIN main_window.interviewer_checkboxes :
        /\ main_window.interviewer_checkboxes[name].enabled
        /\ LET state == ~main_window.interviewer_checkboxes[name].checked
           IN  WindowBecomes(on_interviewer_changed(
                   [main_window EXCEPT !.interviewer_checkboxes[name].checked = state],
                   name, state))

WindowInterrogatedClicked ==
    /\ app = "window"
    /\ \E name \in DOMAIN main_window.interrogated_checkboxes :
        /\ main_window.interrogated_checkboxes[name].enabled
        /\ LET state == ~main_window.interrogated_checkboxes[name].checked
           IN  WindowBecomes(on_interrogated_changed(
                   [main_window EXCEPT !.interrogated_checkboxes[name].checked = state],
                   name, state))

WindowRelatedClicked ==
    /\ app = "window"
    /\ WindowBecomes(update_workspace(
           [main_window EXCEPT !.show_only_related_checkbox = ~@]))

WindowToggleClicked ==
    /\ app = "window"
    /\ \E name \in _toggle_names :
        /\ main_window.filters[name].enabled
        /\ main_window.filters[name].checked => OffCount(main_window.filters) < MaxOff
        /\ WindowBecomes(update_workspace(
               [main_window EXCEPT !.filters[name].checked = ~@]))

WindowAscClicked ==
    /\ app = "window"
    /\ WindowBecomes(set_order_asc([main_window EXCEPT !.asc_button = ~@]))

WindowDescClicked ==
    /\ app = "window"
    /\ WindowBecomes(set_order_desc([main_window EXCEPT !.desc_button = ~@]))

Next ==
    \/ LoadClicked
    \/ InterviewerClicked
    \/ InterrogatedClicked
    \/ RelatedClicked
    \/ ToggleClicked
    \/ AscClicked
    \/ DescClicked
    \/ WindowLoadClicked
    \/ WindowInterviewerClicked
    \/ WindowInterrogatedClicked
    \/ WindowRelatedClicked
    \/ WindowToggleClicked
    \/ WindowAscClicked
    \/ WindowDescClicked

Spec == Init /\ [][Next]_vars

(***************************************************************************)
(* SpecLoad: the panels with the load in its steps.  A click on the load   *)
(* button constructs a LogParser, which reads the file line by line; the   *)
(* handler goes on only when the constructor has returned.  No other event *)
(* is handled while the handler runs.                                      *)
(***************************************************************************)
InitLoad ==
    /\ app = "panels"
    /\ left_panel = LeftPanelInit
    /\ right_panel = RightPanelInit
    /\ workspace = WorkspaceInit
    /\ main_window = MainWindowInit
    /\ p_line = <<>>
    /\ p_out = None
    /\ p_pc = "idle"
    /\ parser = NoParser

\* a file is chosen that is there: LogParser.__init__ and the open
LoadOpen ==
    /\ parser.pc # "reading"
    /\ \E file \in Files : parser' = LogParserInit(file)
    /\ UNCHANGED <<appVars, parseVars>>

\* a path is chosen that is no file: line 37 raises
LoadNotFound ==
    /\ parser.pc # "reading"
    /\ parser' = [LogParserInit(<<>>) EXCEPT !.pc = "FileNotFoundError"]
    /\ PanelsAre(LoadRaised(Panels, parser'))
    /\ UNCHANGED <<app, main_window, parseVars>>

LoadReadLine ==
    /\ parser.pc = "reading"
    /\ parser.pos < Len(parser.file)
    /\ parser' = _load_logs_line(parser, parser.file[parser.pos + 1])
    /\ UNCHANGED <<appVars, parseVars>>

\* the open or a read fails: lines 44-46 log and raise again
LoadFault ==
    /\ parser.pc = "reading"
    /\ parser' = [parser EXCEPT !.pc = "OSError"]
    /\ PanelsAre(LoadRaised(Panels, parser))
    /\ UNCHANGED <<app, main_window, parseVars>>

\* the file is exhausted: the constructor returns and _on_load_clicked goes
\* on with parser.logs; the check boxes are those of the names it counts
LoadDone ==
    /\ parser.pc = "reading"
    /\ parser.pos = Len(parser.file)
    /\ parser' = [parser EXCEPT !.pc = "done"]
    /\ \E names \in NameLists :
          /\ Range(names) = CountedNames(parser.logs)
          /\ PanelsAre(_on_load_clicked(Panels, parser.logs, names))
    /\ UNCHANGED <<app, main_window, parseVars>>

LoadThenDesc == parser.pc # "reading" /\ DescClicked

LoadThenAsc == parser.pc # "reading" /\ AscClicked

LoadThenRelated == parser.pc # "reading" /\ RelatedClicked

NextLoad ==
    \/ LoadOpen
    \/ LoadNotFound
    \/ LoadReadLine
    \/ LoadFault
    \/ LoadDone
    \/ LoadThenDesc
    \/ LoadThenAsc
    \/ LoadThenRelated

SpecLoad == InitLoad /\ [][NextLoad]_vars

(***************************************************************************)
(* SpecReload: the two front ends with every file loaded over every        *)
(* other, the empty file over a table on display included, between clicks  *)
(* on toggles and order buttons.                                           *)
(***************************************************************************)
\* a file is loaded whatever is on display; an empty file names nobody
WindowLoadOver ==
    \E logs \in Sources, names \in NameLists :
        /\ logs = <<>> => names = <<>>
        /\ WindowLoad(logs, names)

NextReload ==
    \/ LoadClicked
    \/ ToggleClicked
    \/ AscClicked
    \/ DescClicked
    \/ WindowLoadOver
    \/ WindowToggleClicked
    \/ WindowAscClicked
    \/ WindowDescClicked

SpecReload == Init /\ [][NextReload]_vars

(***************************************************************************)
(* Claims about the front end (Spec).                                      *)
(***************************************************************************)
\* the rows on display
ViewRows ==
    IF app = "panels" THEN workspace._text_edit.rows ELSE main_window.workspace.rows

\* the lines the pipeline runs over
LoadedLogs == IF app = "panels" THEN workspace._raw_logs ELSE main_window.raw_logs

\* the toggle as the pipeline reads it
ToggleOn(name) ==
    IF app = "panels" THEN Get(workspace._toggles, name, TRUE)
    ELSE main_window.filters[name].checked

\* a row made from the line
RowOf(line) == \E j \in 1..Len(ViewRows) : ViewRows[j].line = line

\* the row without its index
Unnumbered(row) == [row EXCEPT !.row_index = 0]

\* C1: after any sequence of clicks on the check boxes of the two groups,
\* the handlers they run re-entrantly and reloads included, no name is in
\* both the interviewer selection and the interrogated selection: not in
\* the two lists of LeftPanel, not in the two lists the Workspace was handed,
\* not checked in both groups, and not in both lists of get_selected_names.
C1_MutualExclusion ==
    /\ Range(left_panel._interviewer_order) \cap Range(left_panel._interrogated_order) = {}
    /\ Range(workspace._interviewer_order) \cap Range(workspace._interrogated_order) = {}
    /\ \A name \in DOMAIN left_panel.interviewer_checkboxes :
          ~(left_panel.interviewer_checkboxes[name].checked
            /\ left_panel.interrogated_checkboxes[name].checked)
    /\ Range(get_selected_names(main_window).selected_I)
          \cap Range(get_selected_names(main_window).selected_O) = {}

\* Jo was checked as interviewer, unchecked, and checked as interrogated
\* after Ed became interviewer
C1_Witness ==
    /\ app = "panels"
    /\ left_panel._interviewer_order = <<Ed>>
    /\ left_panel._interrogated_order = <<Jo>>
    /\ ~left_panel.interviewer_checkboxes[Jo].enabled
    /\ ~left_panel.interrogated_checkboxes[Ed].enabled
    /\ workspace._interrogated_order = <<Jo>>

\* C2: update_view run again with no change of the toggles, order, names
\* or flag in between gives the same rows (same lines, order, tags and
\* indices) and leaves the Workspace as it is; a third run gives the rows
\* of the second.
C2_Idempotent ==
    (app = "panels" /\ workspace._text_edit # EmptyDocument) =>
        /\ update_view(workspace) = workspace
        /\ update_view(update_view(workspace))._text_edit
              = update_view(workspace)._text_edit

C2_Witness ==
    /\ app = "panels"
    /\ workspace._order = "DESC"
    /\ workspace._show_only_related
    /\ Len(workspace._text_edit.rows) = 2
    /\ workspace._text_edit.rows[1].tag = <<>>
    /\ workspace._text_edit.rows[2].tag = <<"I">>
    /\ update_view(workspace)._text_edit.rows = workspace._text_edit.rows

\* C3: for every transcript, toggles, groups and flag, the rows under DESC
\* are the rows under ASC in reverse (same lines, same tags), the indices
\* are 1..N in both, and the rows on display are those of the order the
\* RightPanel is in, so switching back to ASC shows the ASC rows again.
C3_DescReversesAsc ==
    (app = "panels" /\ workspace._raw_logs # <<>>) =>
        LET asc == update_view([workspace EXCEPT !._order = "ASC"])._text_edit.rows
            desc == update_view([workspace EXCEPT !._order = "DESC"])._text_edit.rows
        IN  /\ Len(desc) = Len(asc)
            /\ \A i \in 1..Len(asc) :
                  /\ asc[i].row_index = i
                  /\ desc[i].row_index = i
                  /\ Unnumbered(desc[i]) = Unnumbered(asc[Len(asc) + 1 - i])
            /\ workspace._text_edit.rows =
                  IF right_panel._sort_order = "ASC" THEN asc ELSE desc

\* DESC was clicked on a transcript of four lines: three rows, the last
\* line of the file first, the unparsed line dropped, indices 1..3
C3_Witness ==
    /\ app = "panels"
    /\ right_panel._sort_order = "DESC"
    /\ right_panel._desc_button /\ ~right_panel._asc_button
    /\ workspace._raw_logs = <<LineJo, LineUnparsed, LineEdRadio, LineCommand>>
    /\ Len(workspace._text_edit.rows) = 3
    /\ workspace._text_edit.rows[1].line = LineCommand
    /\ workspace._text_edit.rows[3].line = LineJo
    /\ workspace._text_edit.rows[3].tag = <<"O">>
    /\ workspace._text_edit.rows[3].row_index = 3

\* C4 (as claimed): a line that does not parse is in the rows exactly when
\* the toggle for unrecognized lines is on, and then as its own text; when
\* the toggle is off it is dropped and takes no index, the indices being 1..N.
C4_UnparsedShownIffToggle ==
    LoadedLogs # <<>> =>
        /\ \A i \in 1..Len(LoadedLogs) :
              IsNone(parse_line(LoadedLogs[i])) =>
                  /\ RowOf(LoadedLogs[i]) <=> ToggleOn("Tog Unrecognized")
                  /\ \A j \in 1..Len(ViewRows) :
                        ViewRows[j].line = LoadedLogs[i] =>
                            ViewRows[j].pre /\ ViewRows[j].message = LoadedLogs[i]
        /\ \A j \in 1..Len(ViewRows) : ViewRows[j].row_index = j

\* C5 (as claimed): with the radio toggle off no line whose speaker clause
\* carries "(radio)" is in the rows; with it on, and every other toggle on
\* and the related-only flag off, such a line is in the rows.
C5_RadioHiddenWhenOff ==
    LoadedLogs # <<>> =>
        \A i \in 1..Len(LoadedLogs) :
            (/\ ~IsNone(parse_line(LoadedLogs[i]))
             /\ ExtractSpeakerInfo(PostAction(LoadedLogs[i])).is_radio) =>
                /\ ~ToggleOn("Tog Radio") => ~RowOf(LoadedLogs[i])
                /\ (/\ \A name \in _toggle_names : ToggleOn(name)
                    /\ ~(IF app = "panels" THEN workspace._show_only_related
                         ELSE main_window.show_only_related_checkbox))
                      => RowOf(LoadedLogs[i])


\* the flag "show only related" as the pipeline reads it
OnlyRelated ==
    IF app = "panels" THEN workspace._show_only_related
    ELSE main_window.show_only_related_checkbox

\* the names of both groups as the pipeline reads them
GroupA ==
    IF app = "panels" THEN Range(workspace._interviewer_order)
    ELSE Range(get_selected_names(main_window).selected_I)

GroupB ==
    IF app = "panels" THEN Range(workspace._interrogated_order)
    ELSE Range(get_selected_names(main_window).selected_O)

\* the rows the pipeline gives for the same state with the flag off
RowsUnrelatedToo ==
    IF app = "panels"
    THEN update_view([workspace EXCEPT !._show_only_related = FALSE])._text_edit.rows
    ELSE update_workspace([main_window EXCEPT !.show_only_related_checkbox = FALSE]).workspace.rows

\* name, lower-cased, occurs in the lower-cased text after the action
Mentions(line, name) == Contains(Lower(PostAction(line)), Lower(name))

KnownCategories ==
    {<<"Czat IC">>, <<"Czat OOC">>, <<"Akcja /me">>, <<"Akcja /do">>,
     <<"Komenda">>, <<"PW">>}

\* the category filter as claimed drops a line of this action
CategoryDrops(action) ==
    \/ action = <<"Akcja /me">> /\ ~ToggleOn("Tog /me")
    \/ action = <<"Akcja /do">> /\ ~ToggleOn("Tog /do")
    \/ action = <<"Czat OOC">> /\ ~ToggleOn("Tog OOC")
    \/ action = <<"PW">> /\ ~ToggleOn("Tog PW")
    \/ action = <<"Komenda">> /\ ~ToggleOn("Tog Commands")
    \/ action \notin KnownCategories /\ ~ToggleOn("Tog Unrecognized")

\* C12 (as claimed): with the radio toggle on and "show only related" off,
\* so that only the category filter decides, a parsed line is a row exactly
\* when the category filter does not drop it: a line of Akcja /me, Akcja
\* /do, Czat OOC, PW or Komenda is dropped when its toggle is off, a line
\* of an action outside the known categories exactly when the toggle for
\* unrecognized lines is off, and no line of a known action whose toggle
\* is on is dropped.
C12_CategoryFilter ==
    (LoadedLogs # <<>> /\ ~OnlyRelated /\ ToggleOn("Tog Radio")) =>
        \A i \in 1..Len(LoadedLogs) :
            ~IsNone(parse_line(LoadedLogs[i])) =>
                (RowOf(LoadedLogs[i]) <=> ~CategoryDrops(parse_line(LoadedLogs[i]).action))

\* C13: the row indices of every table are 1, 2, ..., N in the order of
\* the rows, N being the number of rows: a dropped line, parsed or not,
\* takes no index, and no index is skipped or repeated.
C13_RowIndices ==
    \A j \in 1..Len(ViewRows) : ViewRows[j].row_index = j

\* four lines loaded, the second (unparsed) dropped: the line after it has
\* index 2
C13_Witness ==
    /\ app = "panels"
    /\ LoadedLogs = <<LineJo, LineUnparsed, LineEdRadio, LineCommand>>
    /\ workspace._order = "ASC"
    /\ ~workspace._show_only_related
    /\ Len(ViewRows) = 3
    /\ ViewRows[2].line = LineEdRadio
    /\ ViewRows[2].row_index = 2
    /\ ViewRows[3].row_index = 3


\* C17: no recompute changes the transcript: under either order and any
\* toggles or selections the list that LeftPanel, RightPanel and Workspace
\* share (MainWindow's raw_logs likewise) holds the lines of the loaded
\* file in file order, and one more recompute leaves it so.
C17_TranscriptUntouched ==
    /\ app = "panels" =>
          /\ left_panel.raw_logs \in Sources
          /\ right_panel._raw_logs = left_panel.raw_logs
          /\ workspace._raw_logs = left_panel.raw_logs
          /\ update_view(workspace)._raw_logs = left_panel.raw_logs
    /\ app = "window" =>
          /\ main_window.raw_logs \in Sources
          /\ update_workspace(main_window).raw_logs = main_window.raw_logs

\* the table was recomputed in DESC order with a toggle off: the last line
\* of the file is the first row and the list is still in file order
C17_Witness ==
    /\ app = "panels"
    /\ workspace._order = "DESC"
    /\ OffCount(right_panel._toggles) = 1
    /\ workspace._raw_logs = <<LineMe, LineEdOOC, LineChannel, LineDo, LinePW, LineOther>>
    /\ Len(ViewRows) >= 2
    /\ ViewRows[1].line = LineOther

\* the Workspace holding what the widgets of the two panels show now
CurrentViewState ==
    [workspace EXCEPT
        !._raw_logs = left_panel.raw_logs,
        !._toggles = [name \in _toggle_names |-> right_panel._toggles[name].checked],
        !._order = right_panel._sort_order,
        !._interviewer_order = left_panel._interviewer_order,
        !._interrogated_order = left_panel._interrogated_order,
        !._show_only_related = left_panel.show_only_related_checkbox]

SortOrder == IF app = "panels" THEN workspace._order ELSE main_window.sort_order

\* the defaults of the settings
ViewDefaults ==
    /\ \A name \in _toggle_names : ToggleOn(name)
    /\ SortOrder = "ASC"
    /\ GroupA = {} /\ GroupB = {}
    /\ ~OnlyRelated

\* C19 (as claimed): every step that loads a transcript (the loaded lines
\* change) ends with all nine toggles on, the order ASC, both groups empty
\* and "show only related" off, whatever the state before the load.
C19_DefaultsAfterLoad ==
    [][LoadedLogs' # LoadedLogs => ViewDefaults']_vars

\* the names of a group that the line mentions
Matching(line, group) == {name \in group : Mentions(line, name)}

\* C20 (as claimed): the row of a parsed line carries [I] when one name of
\* the interviewers matches it and [I1]..[Ik] when k > 1 match, followed by
\* [O] or [O1]..[Ok] by the same rule for the interrogated, so a line that
\* matches names of both groups carries a tag of each.
C20_OrdinalTags ==
    \A j \in 1..Len(ViewRows) :
        ~ViewRows[j].pre =>
            ViewRows[j].tag =
                TagLabels("I", Cardinality(Matching(ViewRows[j].line, GroupA)))
                \o TagLabels("O", Cardinality(Matching(ViewRows[j].line, GroupB)))


(***************************************************************************)
(* Claims about the load (SpecLoad).                                       *)
(***************************************************************************)
\* the physical line without its trailing line terminator
Unterminated(line) ==
    IF line # <<>> /\ line[Len(line)] = Newline THEN SubSeq(line, 1, Len(line) - 1)
    ELSE line

\* C14 (as claimed): a finished load has one raw line per physical line of
\* the file, in file order, whether or not the line parses, each the
\* physical line with only its trailing line terminator removed; an empty
\* file gives the empty sequence.
C14_OneRawLinePerLine ==
    parser.pc = "done" =>
        /\ Len(parser.logs) = Len(parser.file)
        /\ \A i \in 1..Len(parser.file) : parser.logs[i] = Unterminated(parser.file[i])
        /\ left_panel.raw_logs = parser.logs

\* the bare name of the speaker of a physical line with a clause "Name
\* mowi:" (or another tone, or with "(radio)"), <<>> without such a clause
SpeakerOf(line) ==
    IF IsNone(parse_line(Strip(line))) THEN <<>>
    ELSE Get(parse_line(Strip(line)), "name", <<>>)

\* C15 (as claimed): after a load the users of the loader hold the bare name
\* of every speaker of a clause "Name mowi:" of any line, and the frequency
\* table maps each such name to the number of lines it speaks in.
C15_UsersAndFrequencies ==
    parser.pc = "done" =>
        \A i \in 1..Len(parser.file) :
            SpeakerOf(parser.file[i]) # <<>> =>
                /\ SpeakerOf(parser.file[i]) \in parser.users
                /\ Get(parser.user_frequencies, SpeakerOf(parser.file[i]), 0) =
                      Cardinality({j \in 1..Len(parser.file) :
                                      SpeakerOf(parser.file[j]) = SpeakerOf(parser.file[i])})

\* the load has failed
LoadFailed(lp) == lp.pc \in {"FileNotFoundError", "OSError"}

\* C16: a load of a path that is no file, or one that meets an I/O fault at
\* the open or at any read, ends in the exception and changes nothing of
\* LeftPanel, RightPanel and Workspace: the transcript loaded before, the
\* settings and the document stay.  While the file is read nothing of the
\* panels changes either, and the transcript of the panels changes only in
\* the step in which a load finishes, to all lines of the file.
C16_FailedLoadChangesNothing ==
    [][ /\ (parser' # parser /\ LoadFailed(parser')) => UNCHANGED panelVars
        /\ parser'.pc = "reading" => UNCHANGED panelVars
        /\ left_panel.raw_logs' # left_panel.raw_logs =>
              /\ parser'.pc = "done"
              /\ Len(left_panel.raw_logs') = Len(parser'.file) ]_vars

\* a file of three lines failed after two were read, while the transcript
\* of two lines loaded before is on display in DESC order
C16_Witness ==
    /\ parser.pc = "OSError"
    /\ Len(parser.file) = 3
    /\ parser.logs = <<LineJo, LineUnparsed>>
    /\ left_panel.raw_logs = <<<<>>, LineMoji>>
    /\ workspace._raw_logs = left_panel.raw_logs
    /\ workspace._order = "DESC"
    /\ Len(workspace._text_edit.rows) = 1
    /\ workspace._text_edit.rows[1].line = LineMoji

(***************************************************************************)
(* Claims about reloads (SpecReload).                                      *)
(***************************************************************************)
\* C23 (as claimed): once an empty file is loaded the transcript is the
\* empty sequence and the document holds no record; no record of the file
\* loaded before stays on display.
C23_EmptyLoadClearsView ==
    LoadedLogs = <<>> => ViewRows = <<>>

(***************************************************************************)
(* Claims about the membership tags (Spec).                                *)
(***************************************************************************)
\* the labels [I], [I1], [I2], ... (letter "I") or [O], [O1], ... of a tag
LabelsOf(tag, letter) ==
    {i \in 1..Len(tag) :
        \E n \in 1..Len(tag) : tag[i] \in Range(TagLabels(letter, n))}

\* C24 (as claimed): a row carries a label [I] only when the speaker of its
\* line, the bare name of its speaker clause, is a selected interviewer, and
\* a label [O] only when the speaker is a selected interrogated person; a
\* name that is only mentioned in the text gives no label.
C24_TagOnlyForSpeaker ==
    \A j \in 1..Len(ViewRows) :
        ~ViewRows[j].pre =>
            /\ LabelsOf(ViewRows[j].tag, "I") # {} => SpeakerOf(ViewRows[j].line) \in GroupA
            /\ LabelsOf(ViewRows[j].tag, "O") # {} => SpeakerOf(ViewRows[j].line) \in GroupB

\* C25 (as claimed): a row whose action is Komenda or PW carries no label
\* [I] or [O], whatever names are selected and whatever its text is.
C25_NoTagOnCommandOrPW ==
    \A j \in 1..Len(ViewRows) :
        (~ViewRows[j].pre
           /\ parse_line(ViewRows[j].line).action \in {<<"Komenda">>, <<"PW">>}) =>
            ViewRows[j].tag = <<>>

\* C26 (as claimed): a line that is a row with the flag "show only related"
\* on and with it off carries the same tag under both; the flag decides
\* only whether the other lines are rows.
C26_TagIndependentOfFlag ==
    OnlyRelated =>
        \A j \in 1..Len(ViewRows), k \in 1..Len(RowsUnrelatedToo) :
            ViewRows[j].line = RowsUnrelatedToo[k].line =>
                ViewRows[j].tag = RowsUnrelatedToo[k].tag

(***************************************************************************)
(* Claims about the selection and the order buttons (Spec).                *)
(***************************************************************************)
\* C27: after any sequence of clicks on the check boxes and of reloads, the
\* check box of a name in one group is disabled exactly when the name is
\* selected in the other group (checked there, and in LeftPanel also in the
\* list of that group); so a name that is unchecked has its box in the
\* other group enabled again.
C27_DisabledIffSelectedInOther ==
    /\ \A name \in DOMAIN left_panel.interviewer_checkboxes :
          /\ ~left_panel.interrogated_checkboxes[name].enabled
                <=> left_panel.interviewer_checkboxes[name].checked
          /\ ~left_panel.interviewer_checkboxes[name].enabled
                <=> left_panel.interrogated_checkboxes[name].checked
          /\ left_panel.interviewer_checkboxes[name].checked
                <=> name \in Range(left_panel._interviewer_order)
          /\ left_panel.interrogated_checkboxes[name].checked
                <=> name \in Range(left_panel._interrogated_order)
    /\ \A name \in DOMAIN main_window.interviewer_checkboxes :
          /\ ~main_window.interrogated_checkboxes[name].enabled
                <=> main_window.interviewer_checkboxes[name].checked
          /\ ~main_window.interviewer_checkboxes[name].enabled
                <=> main_window.interrogated_checkboxes[name].checked

\* Jo is interviewer and nobody is interrogated: only Jo's box among the
\* interrogated is disabled
C27_Witness ==
    /\ app = "panels"
    /\ left_panel._interviewer_order = <<Jo>>
    /\ left_panel._interrogated_order = <<>>
    /\ ~left_panel.interrogated_checkboxes[Jo].enabled
    /\ left_panel.interrogated_checkboxes[Ed].enabled
    /\ left_panel.interviewer_checkboxes[Jo].enabled
    /\ left_panel.interviewer_checkboxes[Ed].enabled
    /\ left_panel.show_only_related_checkbox
    /\ workspace._order = "DESC"

\* the two lists the pipeline works with
SelectedI ==
    IF app = "panels" THEN workspace._interviewer_order
    ELSE get_selected_names(main_window).selected_I

SelectedO ==
    IF app = "panels" THEN workspace._interrogated_order
    ELSE get_selected_names(main_window).selected_O

NoDuplicates(s) == \A i, j \in 1..Len(s) : s[i] = s[j] => i = j

\* the list b follows the list a by one event: nothing, one name selected
\* and put at the end, one name deselected and the others left in their
\* order, or all names dropped by a reload
SelectionStep(a, b) ==
    \/ b = a
    \/ \E nm \in Range(b) \ Range(a) : b = Append(a, nm)
    \/ \E nm \in Range(a) : b = SelectSeq(a, LAMBDA x : x # nm)
    \/ b = <<>>

\* C28 (as claimed): after any sequence of selections and deselections both
\* groups hold the selected names in the order of their selection, without
\* duplicates: a selected name goes to the end of its list, a deselected
\* name leaves it and the others keep their order; the lists handed to the
\* Workspace are the lists of LeftPanel.
C28_SelectionOrder ==
    [][ /\ SelectionStep(SelectedI, SelectedI')
        /\ SelectionStep(SelectedO, SelectedO')
        /\ NoDuplicates(SelectedI') /\ NoDuplicates(SelectedO')
        /\ app = "panels" =>
              /\ workspace._interviewer_order' = left_panel._interviewer_order'
              /\ workspace._interrogated_order' = left_panel._interrogated_order' ]_vars

\* C29 (as claimed): after any sequence of clicks on the ASC and DESC
\* buttons, a click on the button of the order in force included, exactly
\* one of the two is checked, and it is the button of the order the
\* pipeline sorts by.
C29_OneOrderButtonChecked ==
    /\ right_panel._asc_button # right_panel._desc_button
    /\ right_panel._asc_button <=> workspace._order = "ASC"
    /\ right_panel._desc_button <=> right_panel._sort_order = "DESC"
    /\ main_window.asc_button # main_window.desc_button
    /\ main_window.asc_button <=> main_window.sort_order = "ASC"

(***************************************************************************)
(* Claims about the date and time toggles (Spec).                          *)
(***************************************************************************)
\* the rows the pipeline gives for the same state with the toggles of date
\* and time set to show_date and show_hour
RowsShowing(show_date, show_hour) ==
    IF app = "panels"
    THEN update_view([workspace EXCEPT
             !._toggles = [name \in _toggle_names |->
                              IF name = "Tog date" THEN show_date
                              ELSE IF name = "Tog hour" THEN show_hour
                              ELSE Get(workspace._toggles, name, TRUE)]])._text_edit.rows
    ELSE update_workspace([main_window EXCEPT
             !.filters["Tog date"].checked = show_date,
             !.filters["Tog hour"].checked = show_hour]).workspace.rows

\* the rows without their timestamps
UnstampedRows(rows) == [j \in 1..Len(rows) |-> [rows[j] EXCEPT !.timestamp = ""]]

NoTimestamps(rows) == \A j \in 1..Len(rows) : rows[j].timestamp = ""

=============================================================================
